---- MODULE Spec2Model ----
(***************************************************************************)
(* Door access controller (Project/Project.ino): the EEPROM credential     *)
(* store, the Normal/Program mode dispatch of loop(), the door motor       *)
(* cycles funopenDoor/closeDoor and the smoke check.                       *)
(*                                                                         *)
(* The EEPROM is a byte array that starts all zero (a wiped device); it is *)
(* kept as the finite map of its non-zero bytes, every other address       *)
(* reading 0.  Card ids are 4-tuples of bytes.  Arithmetic done in a       *)
(* uint8_t is taken modulo AddrMod.                                        *)
(*                                                                         *)
(* storedCard is written by readID and read only by the checkTwo call that *)
(* follows, so ReadID returns its bytes instead of keeping them; the       *)
(* globals replaceMaster and safe (shadowed in closeDoor) are never read.  *)
(* findID's uint8_t loop index cannot pass a count of 255; the scans       *)
(* offered keep the count below that.                                      *)
(***************************************************************************)
EXTENDS Integers, Sequences, FiniteSets, TLC

(* ------------------------------ bounds -------------------------------- *)
\* Program-mode scans that would append are presented only below this count.
MaxCount == 3
\* The same limit for the specification that starts from a nearly full store.
CapCount == 64
\* How many store sizes, counted down from the last addressable slot, the
\* full-store runs start from.
CapSpan == 2

(* ------------------------- program constants -------------------------- *)
LOW == 0
HIGH == 1
MagicNumber == 143
SmokeThreshold == 100
SmokeSamples == 4
ClearLow == 14
ClearHigh == 20
AddrMod == 256
EESize == 1024

(* --------------------------- input alphabets -------------------------- *)
CardA == <<10, 20, 30, 40>>
CardB == <<10, 20, 30, 41>>
CardC == <<11, 20, 30, 40>>
CardZ == <<0, 20, 30, 40>>
CardM == <<143, 1, 2, 3>>
CardF == <<200, 1, 2, 3>>
NoCard == <<0, 0, 0, 0>>

Ids == {CardA, CardB, CardC, CardZ, CardM}
MasterIds == {CardM, CardZ}
DistVals == {ClearLow, ClearLow + 1, ClearHigh - 1, ClearHigh}
GasVals == {SmokeThreshold, SmokeThreshold + 1}

\* The k-th card of a store filled with distinct cards.
Rec(k) == <<k, k, k, k>>
CapIds == {Rec(1), Rec(2), CardF, CardM}

VARIABLES
    eeprom,       \* EEPROM contents: address -> non-zero byte
    masterCard,   \* byte masterCard[4]
    readCard,     \* byte readCard[4]
    match,        \* boolean match
    programMode,  \* boolean programMode
    successRead,  \* uint8_t successRead
    motHigh,      \* output pin 8 (open direction)
    motLow,       \* output pin 7 (close direction)
    rc,           \* output pin 4
    gas,          \* level at the gas sensor (environment)
    pc,           \* position of the control flow
    after,        \* positions to continue at when the current door cycle returns
    i,            \* checkSmoke: remaining samples
    safe,         \* closeDoor: local `safe`
    value         \* closeDoor: local `value`, 0 outside closeDoor

vars == <<eeprom, masterCard, readCard, match, programMode, successRead,
          motHigh, motLow, rc, gas, pc, after, i, safe, value>>

(* ------------------------------ EEPROM -------------------------------- *)
EERead(e, a) ==
    LET x == a % EESize IN IF x \in DOMAIN e THEN e[x] ELSE 0

EEWrite(e, a, v) ==
    LET x == a % EESize IN
    IF v = 0
    THEN [y \in (DOMAIN e) \ {x} |-> e[y]]
    ELSE [y \in (DOMAIN e) \cup {x} |-> IF y = x THEN v ELSE e[y]]

Count(e) == EERead(e, 0)

\* readID: the four bytes read into storedCard for slot `number`.
ReadID(e, number) ==
    LET start == ((number * 4) + 2) % AddrMod
    IN  [k \in 1..4 |-> EERead(e, start + (k - 1))]

\* checkTwo: the value of `match` (which is also the result) after the call,
\* given the value m it had before.
CheckTwo(m, a, b) ==
    LET m1 == IF a[1] # 0 THEN TRUE ELSE m
    IN  IF \E k \in 1..4 : a[k] # b[k] THEN FALSE ELSE m1

\* isMaster
IsMaster(m, test, master) == CheckTwo(m, test, master)

\* The loop shared by findID and findIDSLOT, from slot n on.
RECURSIVE FindFrom(_, _, _, _)
FindFrom(e, m, find, n) ==
    IF n > Count(e)
    THEN [found |-> FALSE, match |-> m, slot |-> 0]
    ELSE LET m2 == CheckTwo(m, find, ReadID(e, n))
         IN  IF m2 THEN [found |-> TRUE, match |-> m2, slot |-> n]
                   ELSE FindFrom(e, m2, find, n + 1)

\* findID
FindID(e, m, find) == FindFrom(e, m, find, 1)

\* findIDSLOT: the possible results; falling off the end returns no value,
\* so any uint8_t may come back.
FindIDSLOT(e, m, find) ==
    LET r == FindFrom(e, m, find, 1)
    IN  IF r.found THEN {r}
        ELSE {[found |-> FALSE, match |-> r.match, slot |-> s] : s \in 0..(AddrMod - 1)}

WriteBytes(e, start, a) ==
    EEWrite(EEWrite(EEWrite(EEWrite(e, start, a[1]), start + 1, a[2]),
                    start + 2, a[3]), start + 3, a[4])

\* writeID: the EEPROM and `match` after the call.
WriteID(e, m, a) ==
    LET r == FindID(e, m, a) IN
    IF ~r.found
    THEN LET num   == Count(e)
             start == ((num * 4) + 6) % AddrMod
             num1  == (num + 1) % AddrMod
         IN  [eeprom |-> WriteBytes(EEWrite(e, 0, num1), start, a), match |-> r.match]
    ELSE [eeprom |-> e, match |-> r.match]

\* deleteID: the shifting loop for ( j = 0; j < looping; j++ ).  Pass j reads
\* address start+4+j, which only pass j+4 writes, so every pass reads a byte
\* the loop has not written yet and the passes amount to one block move.
ShiftDown(e, start, looping) ==
    LET moved == start..(start + looping - 1)
        new(a) == IF a \in moved THEN EERead(e, a + 4) ELSE EERead(e, a)
    IN  [a \in {x \in (DOMAIN e) \cup moved : new(x) # 0} |-> new(a)]

\* deleteID, else-branch, once findIDSLOT has returned `slot`.
DeleteAt(e, slot) ==
    LET num     == Count(e)
        start   == ((slot * 4) + 2) % AddrMod
        looping == ((num - slot) * 4) % AddrMod
        num1    == (num - 1) % AddrMod
        e1      == EEWrite(e, 0, num1)
        e2      == ShiftDown(e1, start, looping)
    IN  WriteBytes(e2, start + looping, NoCard)

\* deleteID without its findID test: always the removing branch.
DeleteIDUnchecked(e, m, a) ==
    LET r == FindID(e, m, a) IN
    {[eeprom |-> DeleteAt(e, s.slot), match |-> s.match] : s \in FindIDSLOT(e, r.match, a)}

\* deleteID: the possible EEPROM contents and `match` after the call.
DeleteID(e, m, a) ==
    LET r == FindID(e, m, a) IN
    IF ~r.found
    THEN {[eeprom |-> e, match |-> r.match]}
    ELSE {[eeprom |-> DeleteAt(e, s.slot), match |-> s.match] : s \in FindIDSLOT(e, r.match, a)}

(* ------------------------------- Init --------------------------------- *)
\* EEPROM of a wiped device after setup() has stored master card m.
Provisioned(m) == WriteBytes(EEWrite(<<>>, 1, MagicNumber), 2, m)

\* EEPROM left by earlier sessions that enrolled cards Rec(1)..Rec(n), n below
\* the first slot whose address leaves a uint8_t: count n, record k at 4k+2.
Enrolled(m, n) ==
    LET p == Provisioned(m) IN
    [a \in (DOMAIN p) \cup (IF n = 0 THEN {} ELSE {0}) \cup (6..((4 * n) + 5)) |->
        IF a = 0 THEN n
        ELSE IF a < 6 THEN p[a]
        ELSE Rec((a - 2) \div 4)[((a - 2) % 4) + 1]]

InitWith(e, m) ==
    /\ eeprom = e
    /\ masterCard = m
    /\ readCard = NoCard
    /\ match = FALSE
    /\ programMode = FALSE
    /\ successRead = 0
    /\ motHigh = LOW
    /\ motLow = LOW
    /\ rc = LOW
    /\ gas \in GasVals
    /\ pc = "top"
    /\ after = <<>>
    /\ i = 0
    /\ safe = FALSE
    /\ value = 0

Init == \E m \in MasterIds : InitWith(Provisioned(m), m)

\* Slots 1..Capacity are the records whose start address 4k+2 fits a uint8_t.
Capacity == (AddrMod - 3) \div 4

\* setup() after a master redefinition: the records of the earlier sessions
\* (here the one card CardA) are kept, the master is the card scanned now.
InitKept == \E m \in MasterIds : InitWith(WriteID(Provisioned(m), FALSE, CardA).eeprom, m)

InitCap ==
    \E n \in (Capacity - CapSpan + 1)..Capacity : InitWith(Enrolled(CardM, n), CardM)

(* ------------------------------ helpers ------------------------------- *)
\* The band test with its lower comparison made inclusive.
InBandInclusive(v) == v >= ClearLow /\ v < ClearHigh

\* value > 14 && value < 20
InBand(v) == v > ClearLow /\ v < ClearHigh

\* The scan of `id` would reach writeID and add a record.
WouldAppend(id) ==
    LET im == IsMaster(match, id, masterCard)
    IN  ~im /\ ~FindID(eeprom, im, id).found

\* Return from a door cycle to the position on top of `after`.
Return ==
    /\ pc' = Head(after)
    /\ after' = Tail(after)

doorVars == <<motHigh, motLow, rc, safe, value>>
storeVars == <<eeprom, masterCard>>

(* ------------------------------ loop() -------------------------------- *)
\* Top of loop(): clear the outputs, then checkClose().
LoopTop ==
    /\ pc = "top"
    /\ motHigh' = LOW
    /\ motLow' = LOW
    /\ rc' = LOW
    /\ \E v \in DistVals :
          IF InBand(v)
          THEN pc' = "close_pre" /\ after' = <<"getID">>
          ELSE pc' = "getID" /\ after' = after
    /\ UNCHANGED <<storeVars, readCard, match, programMode, successRead, gas, i, safe, value>>

\* getID(): no card, or a card whose UID is copied into readCard.
GetID(ids, cap) ==
    /\ pc = "getID"
    /\ \/ successRead' = 0 /\ readCard' = readCard
       \/ \E id \in ids :
             /\ ~(programMode /\ Count(eeprom) >= cap /\ WouldAppend(id))
             /\ readCard' = id
             /\ successRead' = 1
    /\ pc' = "smoke"
    /\ i' = SmokeSamples
    /\ UNCHANGED <<storeVars, match, programMode, doorVars, gas, after>>

\* checkSmoke(): one pass of its sampling loop.
SmokeSample ==
    /\ pc = "smoke"
    /\ IF gas > SmokeThreshold
       THEN /\ pc' = "open_pre"
            /\ after' = <<"halt_smoke">>
            /\ i' = i
       ELSE /\ i' = i - 1
            /\ pc' = IF i - 1 = 0 THEN "userOpen" ELSE "smoke"
            /\ after' = after
    /\ UNCHANGED <<storeVars, readCard, match, programMode, successRead, doorVars, gas>>

\* The button branch without its closeDoor() call.
UserOpenNoClose ==
    /\ pc = "userOpen"
    /\ \E pressed \in BOOLEAN :
          IF pressed
          THEN pc' = "open_pre" /\ after' = <<"wipe">>
          ELSE pc' = "wipe" /\ after' = after
    /\ UNCHANGED <<storeVars, readCard, match, programMode, successRead, doorVars, gas, i>>

\* The userOpen button test in the polling loop.
UserOpen ==
    /\ pc = "userOpen"
    /\ \E pressed \in BOOLEAN :
          IF pressed
          THEN pc' = "open_pre" /\ after' = <<"close_pre", "wipe">>
          ELSE pc' = "wipe" /\ after' = after
    /\ UNCHANGED <<storeVars, readCard, match, programMode, successRead, doorVars, gas, i>>

\* The confirmed branch clearing the record count along with the marker.
WipeStepClearsCount(first, second) ==
    /\ IF first /\ second
       THEN /\ eeprom' = EEWrite(EEWrite(eeprom, 1, 0), 0, 0)
            /\ pc' = "halt_wipe"
       ELSE /\ eeprom' = eeprom
            /\ pc' = IF successRead = 0 THEN "getID" ELSE "dispatch"
    /\ UNCHANGED <<masterCard, readCard, match, programMode, successRead, doorVars,
                   gas, after, i>>

\* The wipe button test reading `first`, its confirmation after the delay
\* reading `second`, and the loop condition while (!successRead).
WipeStep(first, second) ==
    /\ IF first /\ second
       THEN /\ eeprom' = EEWrite(eeprom, 1, 0)
            /\ pc' = "halt_wipe"
       ELSE /\ eeprom' = eeprom
            /\ pc' = IF successRead = 0 THEN "getID" ELSE "dispatch"
    /\ UNCHANGED <<masterCard, readCard, match, programMode, successRead, doorVars,
                   gas, after, i>>

WipeCheck ==
    /\ pc = "wipe"
    /\ \E first \in BOOLEAN, second \in BOOLEAN : WipeStep(first, second)

\* programMode, isMaster(readCard): leave Program mode.
ProgExit ==
    /\ pc = "dispatch"
    /\ programMode
    /\ IsMaster(match, readCard, masterCard)
    /\ match' = IsMaster(match, readCard, masterCard)
    /\ programMode' = FALSE
    /\ pc' = "top"
    /\ UNCHANGED <<storeVars, readCard, successRead, doorVars, gas, after, i>>

\* programMode, findID(readCard): deleteID(readCard).
ProgDelete ==
    /\ pc = "dispatch"
    /\ programMode
    /\ LET im == IsMaster(match, readCard, masterCard)
           f  == FindID(eeprom, im, readCard)
       IN  /\ ~im
           /\ f.found
           /\ \E d \in DeleteID(eeprom, f.match, readCard) :
                 /\ eeprom' = d.eeprom
                 /\ match' = d.match
    /\ pc' = "top"
    /\ UNCHANGED <<masterCard, readCard, programMode, successRead, doorVars, gas, after, i>>

\* programMode, unknown card: writeID(readCard).
ProgAdd ==
    /\ pc = "dispatch"
    /\ programMode
    /\ LET im == IsMaster(match, readCard, masterCard)
           f  == FindID(eeprom, im, readCard)
           w  == WriteID(eeprom, f.match, readCard)
       IN  /\ ~im
           /\ ~f.found
           /\ eeprom' = w.eeprom
           /\ match' = w.match
    /\ pc' = "top"
    /\ UNCHANGED <<masterCard, readCard, programMode, successRead, doorVars, gas, after, i>>

\* Normal mode, isMaster(readCard): enter Program mode.
EnterProgram ==
    /\ pc = "dispatch"
    /\ ~programMode
    /\ IsMaster(match, readCard, masterCard)
    /\ match' = IsMaster(match, readCard, masterCard)
    /\ programMode' = TRUE
    /\ pc' = "top"
    /\ UNCHANGED <<storeVars, readCard, successRead, doorVars, gas, after, i>>

\* Normal mode, findID(readCard): rc high, funopenDoor(), rc low, closeDoor().
Grant ==
    /\ pc = "dispatch"
    /\ ~programMode
    /\ LET im == IsMaster(match, readCard, masterCard)
           f  == FindID(eeprom, im, readCard)
       IN  /\ ~im
           /\ f.found
           /\ match' = f.match
    /\ rc' = HIGH
    /\ pc' = "open_pre"
    /\ after' = <<"rc_low", "top">>
    /\ UNCHANGED <<storeVars, readCard, programMode, successRead, motHigh, motLow,
                   safe, value, gas, i>>

\* digitalWrite(rc, LOW) between funopenDoor() and closeDoor().
RcLow ==
    /\ pc = "rc_low"
    /\ rc' = LOW
    /\ pc' = "close_pre"
    /\ UNCHANGED <<storeVars, readCard, match, programMode, successRead, motHigh, motLow,
                   safe, value, gas, after, i>>

\* The deny branch running the door like the grant branch.
DenyOpens ==
    /\ pc = "dispatch"
    /\ ~programMode
    /\ LET im == IsMaster(match, readCard, masterCard)
           f  == FindID(eeprom, im, readCard)
       IN  /\ ~im
           /\ ~f.found
           /\ match' = f.match
    /\ pc' = "open_pre"
    /\ after' = <<"top">>
    /\ UNCHANGED <<storeVars, readCard, programMode, successRead, doorVars, gas, i>>

\* Normal mode, unknown card: report only.
Deny ==
    /\ pc = "dispatch"
    /\ ~programMode
    /\ LET im == IsMaster(match, readCard, masterCard)
           f  == FindID(eeprom, im, readCard)
       IN  /\ ~im
           /\ ~f.found
           /\ match' = f.match
    /\ pc' = "top"
    /\ UNCHANGED <<storeVars, readCard, programMode, successRead, doorVars, gas, after, i>>

(* --------------------------- funopenDoor() ---------------------------- *)
OpenStart ==
    /\ pc = "open_pre"
    /\ motHigh' = HIGH
    /\ pc' = "open_on"
    /\ UNCHANGED <<storeVars, readCard, match, programMode, successRead, motLow, rc,
                   safe, value, gas, after, i>>

\* funopenDoor() returning without digitalWrite(motHigh, LOW).
OpenStopStuck ==
    /\ pc = "open_on"
    /\ Return
    /\ UNCHANGED <<storeVars, readCard, match, programMode, successRead, motHigh, motLow,
                   rc, safe, value, gas, i>>

OpenStop ==
    /\ pc = "open_on"
    /\ motHigh' = LOW
    /\ Return
    /\ UNCHANGED <<storeVars, readCard, match, programMode, successRead, motLow, rc,
                   safe, value, gas, i>>

(* ----------------------------- closeDoor() ---------------------------- *)
CloseBegin ==
    /\ pc = "close_pre"
    /\ safe' = FALSE
    /\ pc' = "close_wait"
    /\ UNCHANGED <<storeVars, readCard, match, programMode, successRead, motHigh, motLow,
                   rc, value, gas, after, i>>

\* A wait loop that also polls the reader on each pass.
CloseSampleScans ==
    /\ pc = "close_wait"
    /\ ~safe
    /\ \E v \in DistVals :
          /\ value' = v
          /\ safe' = InBand(v)
    /\ \E id \in Ids :
          /\ readCard' = id
          /\ successRead' = 1
    /\ UNCHANGED <<storeVars, match, programMode, motHigh, motLow,
                   rc, gas, pc, after, i>>

\* A wait loop whose band test has its two bounds exchanged.
CloseSampleSwapped ==
    /\ pc = "close_wait"
    /\ ~safe
    /\ \E v \in DistVals :
          /\ value' = v
          /\ safe' = (v > ClearHigh /\ v < ClearLow)
    /\ UNCHANGED <<storeVars, readCard, match, programMode, successRead, motHigh, motLow,
                   rc, gas, pc, after, i>>

\* One pass of while (!safe): read the distance, test the band.
CloseSample ==
    /\ pc = "close_wait"
    /\ ~safe
    /\ \E v \in DistVals :
          /\ value' = v
          /\ safe' = InBand(v)
    /\ UNCHANGED <<storeVars, readCard, match, programMode, successRead, motHigh, motLow,
                   rc, gas, pc, after, i>>

CloseStart ==
    /\ pc = "close_wait"
    /\ safe
    /\ motLow' = HIGH
    /\ pc' = "close_on"
    /\ UNCHANGED <<storeVars, readCard, match, programMode, successRead, motHigh, rc,
                   safe, value, gas, after, i>>

CloseStop ==
    /\ pc = "close_on"
    /\ motLow' = LOW
    /\ safe' = FALSE
    /\ value' = 0
    /\ Return
    /\ UNCHANGED <<storeVars, readCard, match, programMode, successRead, motHigh, rc,
                   gas, i>>

(* ---------------------------- environment ----------------------------- *)
GasChange ==
    /\ gas' \in GasVals \ {gas}
    /\ UNCHANGED <<storeVars, readCard, match, programMode, successRead, doorVars,
                   pc, after, i>>

(* ------------------- the store functions called alone ------------------ *)
\* Positions between direct calls: the start, and the branch the last call took.
ApiPcs == {"top", "isMaster", "writeID_added", "writeID_failed",
           "deleteID_removed", "deleteID_failed"}

apiFrame == <<masterCard, programMode, successRead, doorVars, gas, after, i>>

\* isMaster(id), for the value of `match` it leaves.
CallIsMaster ==
    /\ pc \in ApiPcs
    /\ \E id \in Ids :
          /\ readCard' = id
          /\ match' = IsMaster(match, id, masterCard)
    /\ pc' = "isMaster"
    /\ UNCHANGED <<eeprom, apiFrame>>

\* writeID(id)
CallWriteID ==
    /\ pc \in ApiPcs
    /\ \E id \in Ids :
          LET f == FindID(eeprom, match, id)
              w == WriteID(eeprom, match, id)
          IN  /\ f.found \/ Count(eeprom) < MaxCount
              /\ readCard' = id
              /\ eeprom' = w.eeprom
              /\ match' = w.match
              /\ pc' = IF f.found THEN "writeID_failed" ELSE "writeID_added"
    /\ UNCHANGED apiFrame

\* deleteID(id)
CallDeleteID ==
    /\ pc \in ApiPcs
    /\ \E id \in Ids :
          /\ readCard' = id
          /\ \E d \in DeleteID(eeprom, match, id) :
                /\ eeprom' = d.eeprom
                /\ match' = d.match
          /\ pc' = IF FindID(eeprom, match, id).found
                   THEN "deleteID_removed" ELSE "deleteID_failed"
    /\ UNCHANGED apiFrame

(* --------------------------- specifications --------------------------- *)
Scan == GetID(Ids, MaxCount)
ScanCap == GetID(CapIds, CapCount)

Controller ==
    \/ LoopTop \/ SmokeSample \/ UserOpen \/ WipeCheck
    \/ ProgExit \/ ProgDelete \/ ProgAdd \/ EnterProgram \/ Grant \/ RcLow \/ Deny
    \/ OpenStart \/ OpenStop \/ CloseBegin \/ CloseSample \/ CloseStart \/ CloseStop

Next == Scan \/ Controller \/ GasChange
NextCap == ScanCap \/ Controller \/ GasChange

Spec == Init /\ [][Next]_vars
SpecCap == InitCap /\ [][NextCap]_vars
SpecKept == InitKept /\ [][Next]_vars

NextApi == CallIsMaster \/ CallWriteID \/ CallDeleteID
SpecApi == Init /\ [][NextApi]_vars

\* The controller never stops taking its next step; the sensors and the card
\* reader (the values the steps read) are not constrained.
FairSpec == Spec /\ WF_vars(Scan \/ Controller)

(* ------------------------- claims: shorthands ------------------------- *)
Records(e) == [k \in 1..Count(e) |-> ReadID(e, k)]

\* The step about to be taken is the dispatch of the scanned card.
Dispatching == pc = "dispatch" /\ pc' # "dispatch"

\* ... and it is the Program-mode addition of readCard.
Appending == Dispatching /\ programMode /\ WouldAppend(readCard)

\* ... and it is the Program-mode removal of readCard.
Removing ==
    /\ Dispatching
    /\ programMode
    /\ ~IsMaster(match, readCard, masterCard)
    /\ FindID(eeprom, FALSE, readCard).found

(* ------------------------------- claims ------------------------------- *)
\* C1: slots 1..count hold pairwise distinct credentials and no empty slot,
\* after any sequence of scans from the empty provisioned store.
C1_StoreDistinct ==
    \A a \in 1..Count(eeprom) :
        /\ ReadID(eeprom, a) # NoCard
        /\ \A b \in 1..Count(eeprom) : a # b => ReadID(eeprom, a) # ReadID(eeprom, b)

\* C2: the close output is high only inside closeDoor, after closeDoor itself
\* has read a distance strictly between 14 and 20 (its last sample).
C2_CloseOnlyWhenClear ==
    motLow = HIGH => (pc = "close_on" /\ safe /\ value > ClearLow /\ value < ClearHigh)

C2_Witness == motLow = HIGH /\ value = ClearHigh - 1

\* C3: if the gas level ends up above the threshold for good, and no master
\* wipe ever halts the controller, the controller eventually reaches the halt
\* that follows the forced open.
C3_HazardResponse ==
    (<>[](gas > SmokeThreshold) /\ [](pc # "halt_wipe")) => <>(pc = "halt_smoke")

\* C4: the open and the close output are never high together.
C4_MotorInterlock == ~(motHigh = HIGH /\ motLow = HIGH)

\* The close output driven in the close cycle of a manual open.
C4_Witness == motLow = HIGH /\ after = <<"wipe">>

\* C5: short of a confirmed wipe, the persisted marker (byte 1) and master
\* credential (bytes 2-5) stay what setup() left.
C5_MasterImmutable ==
    pc # "halt_wipe" => (EERead(eeprom, 1) = MagicNumber /\ ReadID(eeprom, 0) = masterCard)

\* C6: an addition at full capacity changes no persisted byte, and the count
\* never exceeds the capacity.
C6_StorageFull ==
    /\ [](Count(eeprom) <= Capacity)
    /\ [][(Appending /\ Count(eeprom) >= Capacity) => eeprom' = eeprom]_vars

\* C7: the dispatch of a scan of the master id flips the mode and leaves the
\* persisted store alone.
C7_MasterToggles ==
    [][(Dispatching /\ readCard = masterCard)
          => (programMode' = ~programMode /\ eeprom' = eeprom)]_vars

\* C8: after a Program-mode addition of an id, writeID of the same id again
\* leaves the count where the first call put it.
C8_AppendIdempotent ==
    [][Appending
          => Count(WriteID(eeprom', match', readCard).eeprom) = Count(eeprom')]_vars

\* C9: after a Program-mode addition of an id that was not stored, deleteID of
\* that id restores the count and every earlier record in its slot.
C9_RoundTrip ==
    [][Appending
          => \A d \in DeleteID(eeprom', match', readCard) :
                /\ Count(d.eeprom) = Count(eeprom)
                /\ Records(d.eeprom) = Records(eeprom)]_vars

\* C10: the removal of the id found at slot s of [r1..rn] leaves
\* [r1..r(s-1), r(s+1)..rn] in slots 1..n-1, count n-1 and slot n all zero.
C10_Compaction ==
    [][Removing
          => LET n == Count(eeprom)
                 s == FindID(eeprom, FALSE, readCard).slot
             IN  /\ Count(eeprom') = n - 1
                 /\ \A k \in 1..(n - 1) :
                       ReadID(eeprom', k) = ReadID(eeprom, IF k < s THEN k ELSE k + 1)
                 /\ ReadID(eeprom', n) = NoCard]_vars
\* C11: the Program-mode addition of an unknown id X puts X in slot count+1,
\* raises the count by one, keeps slots 1..count, and findID(X) then succeeds.
C11_AppendThenLookup ==
    [][Appending
          => /\ Count(eeprom') = Count(eeprom) + 1
             /\ ReadID(eeprom', Count(eeprom) + 1) = readCard
             /\ \A k \in 1..Count(eeprom) : ReadID(eeprom', k) = ReadID(eeprom, k)
             /\ FindID(eeprom', match', readCard).found]_vars
\* No slot in 1..count reads as id.
Absent(e, id) == \A k \in 1..Count(e) : ReadID(e, k) # id

\* C12: deleteID of an id that no slot in 1..count holds takes its failure
\* branch and changes no persisted byte, whatever `match` was before.
C12_RemoveAbsent ==
    [][(pc' \in {"deleteID_removed", "deleteID_failed"} /\ Absent(eeprom, readCard'))
          => (pc' = "deleteID_failed" /\ eeprom' = eeprom)]_vars

\* deleteID has just failed for an absent zero-first-byte id on a store of two
\* or more records.
C12_Witness ==
    pc = "deleteID_failed" /\ Count(eeprom) > 1 /\ Absent(eeprom, readCard) /\ readCard[1] = 0
\* Positions of the polling loop (getID up to the dispatch) and the halts.
PollPcs == {"getID", "smoke", "userOpen", "wipe", "dispatch", "halt_smoke", "halt_wipe"}

\* readCard is neither the master nor in a slot.
Unknown(id) == id # masterCard /\ Absent(eeprom, id)

\* Between the denial of readCard in Normal mode and the next getID: the
\* controller is at the top of loop() or in a door cycle that returns there or
\* to the first getID (cycles started while polling return to the wipe test or
\* the halt).
DeniedPending ==
    /\ ~programMode
    /\ successRead = 1
    /\ Unknown(readCard)
    /\ pc \notin PollPcs
    /\ (after = <<>> \/ after[Len(after)] \in {"getID", "top"})

\* C13 as claimed: after a denied scan and until the next poll both outputs
\* stay low, and the store and the mode do not change.
C13_DeniedReportOnly ==
    /\ [](DeniedPending => (motHigh = LOW /\ motLow = LOW))
    /\ [][DeniedPending => (eeprom' = eeprom /\ programMode' = programMode)]_vars

\* C13 amended: in that window the open output stays low, the store and the
\* mode do not change, and the close output is high only inside the closeDoor
\* that checkClose called at the top of loop(), after a sample of 15..19.
C13_DeniedUntilPoll ==
    /\ [](DeniedPending
            => /\ motHigh = LOW
               /\ motLow = HIGH
                     => (pc = "close_on" /\ after = <<"getID">>
                         /\ value > ClearLow /\ value < ClearHigh))
    /\ [][DeniedPending => (eeprom' = eeprom /\ programMode' = programMode)]_vars

\* The close output driven by checkClose's closeDoor after a denied scan.
C13_Witness == DeniedPending /\ motLow = HIGH
\* In the door cycles of the grant branch, which return to the top of loop().
InGrant == after # <<>> /\ after[Len(after)] = "top"

\* The order of the positions of one funopenDoor followed by one closeDoor.
GrantOrder ==
    <<pc, pc'>> \in {<<"open_pre", "open_on">>, <<"open_on", "rc_low">>,
                     <<"rc_low", "close_pre">>, <<"close_pre", "close_wait">>,
                     <<"close_wait", "close_wait">>, <<"close_wait", "close_on">>,
                     <<"close_on", "top">>}

\* C14: the Normal-mode dispatch of a stored, non-master id starts one open
\* cycle followed by one close cycle; the open output is raised and lowered
\* before the close output is raised; the mode and the store do not change.
C14_GrantedOrdering ==
    /\ [][(Dispatching /\ ~programMode /\ readCard # masterCard
             /\ ~Absent(eeprom, readCard))
            => (pc' = "open_pre" /\ after' = <<"rc_low", "top">>)]_vars
    /\ [](InGrant
            => /\ ~programMode
               /\ motHigh = HIGH => (pc = "open_on" /\ motLow = LOW)
               /\ motLow = HIGH => (pc = "close_on" /\ motHigh = LOW))
    /\ [][InGrant
            => /\ eeprom' = eeprom
               /\ programMode' = programMode
               /\ pc' = pc \/ GrantOrder]_vars
\* In the door cycles of the button branch, which return to the wipe test.
InManual == after # <<>> /\ after[Len(after)] = "wipe"

\* The order of the positions of funopenDoor followed by closeDoor there.
ManualOrder ==
    <<pc, pc'>> \in {<<"open_pre", "open_on">>, <<"open_on", "close_pre">>,
                     <<"close_pre", "close_wait">>, <<"close_wait", "close_wait">>,
                     <<"close_wait", "close_on">>, <<"close_on", "wipe">>}

\* What a manual open leaves alone: the store, the master, the mode, and
\* (no lookup being made) the scanned card and `match`.
ManualFrame ==
    /\ eeprom' = eeprom
    /\ masterCard' = masterCard
    /\ programMode' = programMode
    /\ readCard' = readCard
    /\ successRead' = successRead
    /\ match' = match

\* C15: the button branch, in either mode, starts funopenDoor with closeDoor
\* to follow, runs them in that order, and changes none of ManualFrame.
C15_ManualOpen ==
    /\ [][pc = "userOpen"
            => /\ ManualFrame
               /\ pc' \in {"userOpen", "wipe", "open_pre"}
               /\ pc' = "open_pre" => after' = <<"close_pre", "wipe">>]_vars
    /\ [](InManual
            => /\ motHigh = HIGH => (pc = "open_on" /\ motLow = LOW)
               /\ motLow = HIGH => (pc = "close_on" /\ motHigh = LOW))
    /\ [][InManual => (ManualFrame /\ (pc' = pc \/ ManualOrder))]_vars

\* The close cycle of a manual open made in Program mode on a non-empty store.
C15_Witness ==
    pc = "close_on" /\ after = <<"wipe">> /\ programMode /\ Count(eeprom) > 0
\* C16: with the wipe input low at the first test, a still-low input after the
\* delay clears byte 1 alone and halts; a released input changes no persisted
\* byte and the loop goes on.
C16_MasterWipe ==
    [][\A second \in BOOLEAN :
          (pc = "wipe" /\ WipeStep(TRUE, second))
             => IF second
                THEN /\ pc' = "halt_wipe"
                     /\ EERead(eeprom', 1) = 0
                     /\ \A a \in ((DOMAIN eeprom) \cup (DOMAIN eeprom')) \ {1} :
                           EERead(eeprom', a) = EERead(eeprom, a)
                ELSE /\ pc' \in {"getID", "dispatch"}
                     /\ eeprom' = eeprom]_vars

\* Halted by a confirmed wipe with records and the master bytes still there.
C16_Witness ==
    /\ pc = "halt_wipe"
    /\ EERead(eeprom, 1) = 0
    /\ Count(eeprom) > 0
    /\ ReadID(eeprom, 0) = masterCard
\* In one of the two while(1) loops.
Halted == pc \in {"halt_smoke", "halt_wipe"}

\* C17: in the halt after a smoke trip's forced open or a confirmed wipe both
\* outputs are low, and no step leaves the halt or changes the mode, the
\* persisted store, the master or an output.
C17_TerminalAbsorbing ==
    /\ [](Halted => (motHigh = LOW /\ motLow = LOW))
    /\ [][Halted
            => /\ pc' = pc
               /\ eeprom' = eeprom
               /\ masterCard' = masterCard
               /\ programMode' = programMode
               /\ motHigh' = motHigh
               /\ motLow' = motLow]_vars

\* Halted by the smoke trip, the gas level back under the threshold since.
C17_Witness == pc = "halt_smoke" /\ gas <= SmokeThreshold
\* C18: when a scanned id whose first byte is zero is dispatched, isMaster
\* returns false for it, and so does findID called after it, whatever the
\* earlier comparisons left in match.
C18_ZeroNeverMatches ==
    (pc = "dispatch" /\ readCard[1] = 0)
        => /\ ~IsMaster(match, readCard, masterCard)
           /\ ~FindID(eeprom, IsMaster(match, readCard, masterCard), readCard).found
\* In closeDoor, from the first distance sample to the end of the close dwell.
InClose == pc \in {"close_wait", "close_on"}

\* C19: while closeDoor waits for a clear reading and runs its dwell, every
\* step stays in closeDoor or returns from its dwell to the caller; no card
\* is read, the open output and the pending continuation are untouched, and
\* the mode, the store and the master do not change.
C19_NoPreemption ==
    [][InClose
          => /\ \/ pc' \in {"close_wait", "close_on"} /\ after' = after
                \/ pc = "close_on" /\ pc' = Head(after) /\ after' = Tail(after)
             /\ readCard' = readCard
             /\ successRead' = successRead
             /\ match' = match
             /\ motHigh' = motHigh
             /\ programMode' = programMode
             /\ eeprom' = eeprom
             /\ masterCard' = masterCard]_vars

\* Still waiting after a sample outside the band, in Program mode with a
\* record stored.
C19_Witness ==
    /\ pc = "close_wait" /\ ~safe /\ value \in DistVals /\ ~InBand(value)
    /\ programMode /\ Count(eeprom) > 0
\* C20: the master id is in none of the slots 1..count.
C20_MasterNeverRecord == Absent(eeprom, masterCard)
\* In closeDoor, from its call to its return.
InCloseCycle == pc \in {"close_pre", "close_wait", "close_on"}

\* In the do-while of loop() that polls the reader, the gas sensor and the
\* two buttons.
Polling == pc \in {"getID", "smoke", "userOpen", "wipe"}

\* getID has just returned 1.
Presented == pc = "smoke" /\ i = SmokeSamples /\ successRead = 1

\* The distance is read by closeDoor's wait only (checkClose reads it once
\* more, before any wait): the sensor reports a clear value infinitely often
\* when no wait is left for ever on reports outside the band.
ClearReport == pc = "close_wait" => InBand(value)

\* The dispatch of the scanned card has just been carried out: loop() has
\* returned, or the granted open cycle has been entered.
Processed == pc = "top" \/ (pc = "open_pre" /\ after = <<"rc_low", "top">>)

\* C21: if the sensor reports a clear value infinitely often and the
\* controller never halts, then every closeDoor call returns and the
\* controller gets back to polling, and every card read is dispatched.
C21_Liveness ==
    ([]<>ClearReport /\ [](~Halted))
        => /\ [](InCloseCycle => <>Polling)
           /\ [](Presented => <>Processed)

\* A card was read, the button pressed in the same pass, and the close cycle
\* that followed got its clear report: the card is still to be dispatched.
C21_Witness ==
    pc = "close_on" /\ after = <<"wipe">> /\ successRead = 1 /\ InBand(value)
====
